---- MODULE Spec2Model ----
(***************************************************************************)
(* Model of internal/data/common.go: the StringMap view over a shared      *)
(* slice of *StringKeyValue records, and the AttributeValue handle over a  *)
(* shared AttributeKeyValue slot.                                          *)
(*                                                                         *)
(* Pointers are modelled as addresses into a heap: recs maps the address   *)
(* of a StringKeyValue record to its fields, origs maps the address of a   *)
(* slice header to the sequence of record addresses it holds, and a        *)
(* StringMap value is the address of a slice header; kvs holds the orig    *)
(* pointers of the StringKeyValue handles the caller keeps, and hs those of *)
(* its AttributeValue handles, into slots.  Go strings used as              *)
(* keys are sequences of bytes, so that the order used by Sort is the      *)
(* byte-wise order of Go's < on strings.                                   *)
(***************************************************************************)
EXTENDS Integers, Sequences, FiniteSets, TLC

VARIABLES recs, origs, sm, kvs, nextAddr, slots, hs, calls, last

vars == <<recs, origs, sm, kvs, nextAddr, slots, hs, calls, last>>
\* The StringMap side and the AttributeValue side of the state.
mapVars == <<recs, origs, sm, kvs, nextAddr>>
avVars == <<slots, hs, calls>>

\* Bound: records are allocated at addresses 1, 2, ...; Insert and Upsert
\* append a new record only while its address is at most MaxAlloc.
MaxAlloc == 3

\* Bound: the largest len passed to NewAttributeValueSlice.
MaxBatch == 2

\* Bound: the number of calls made on AttributeValue and StringKeyValue
\* handles (constructors, getters and setters) in one run.
MaxCalls == 3

\* The discriminants (otlpcommon.AttributeKeyValue_ValueType).
AttributeValueSTRING == 0
AttributeValueINT == 1
AttributeValueDOUBLE == 2
AttributeValueBOOL == 3

\* The arguments given to the constructors and setters.  A float64 is written
\* in halves (3 is 1.5); the zero value of each type is among them.
StringVals == {"", "s"}
IntVals == {0, 7}
DoubleVals == {0, 3}
BoolVals == BOOLEAN

\* The nil pointer.
NIL == 0

\* Keys "a", "ab", "b" as byte strings; values as opaque strings.
Keys == {<<97>>, <<97, 98>>, <<98>>}
Values == {"1", "2"}
NoKey == <<>>
NoValue == ""

\* The names of the StringMap values held by the caller.
Views == {"v1", "v2"}

\* The numbers of the AttributeValue handles a caller may hold: h1 and its
\* copy h2, or the elements of a NewAttributeValueSlice result.
Handles == 1..(MaxBatch + 1)

\* ---------------------------------------------------------------- helpers

Range(s) == {s[i] : i \in DOMAIN s}

\* Faulty variant of StringLess: only the first bytes are compared.
FirstByteLess(a, b) == Len(b) > 0 /\ (Len(a) = 0 \/ a[1] < b[1])

\* Go's < on strings: byte-wise lexicographic order.
StringLess(a, b) ==
    \E i \in 1..Len(b) :
        /\ \A j \in 1..(i - 1) : j <= Len(a) /\ a[j] = b[j]
        /\ (i > Len(a) \/ a[i] < b[i])

\* Faulty variant of KeyLess: != written for <.
KeyDiffers(heap, x, y) == heap[x].Key # heap[y].Key

\* The less closure Sort passes to sort.SliceStable, over record addresses.
KeyLess(heap, x, y) == StringLess(heap[x].Key, heap[y].Key)

\* sort.SliceStable(s, less) with less the closure KeyLess over heap: a
\* stable sort of s (each element is inserted after the last element that
\* is not greater than it).
SliceStable(heap, s) ==
    LET InsertAt(t, x) ==
            LET after == {i \in 1..Len(t) : ~KeyLess(heap, x, t[i])}
                pos == IF after = {} THEN 0
                       ELSE CHOOSE i \in after : \A j \in after : j <= i
            IN SubSeq(t, 1, pos) \o <<x>> \o SubSeq(t, pos + 1, Len(t))
        sorted[n \in 0..Len(s)] ==
            IF n = 0 THEN <<>> ELSE InsertAt(sorted[n - 1], s[n])
    IN sorted[Len(s)]

\* The records still referenced from a slice or from a handle the caller
\* keeps: what the garbage collector keeps of the heap.
Reachable(heap, slices, held) ==
    [a \in {x \in DOMAIN heap :
                \/ \E p \in DOMAIN slices : x \in Range(slices[p])
                \/ x \in Range(held)}
        |-> heap[a]]

\* NewStringKeyValue(k, v): a fresh record.
NewStringKeyValue(k, v) == [Key |-> k, Value |-> v]

\* ------------------------------------------------------- construction

\* The map[string]string arguments of NewStringMap.
AttrMaps == UNION {[D -> Values] : D \in SUBSET Keys}

\* The orders in which `range attrMap` may visit the keys of attrMap.
RangeOrders(attrMap) ==
    {o \in [1..Cardinality(DOMAIN attrMap) -> DOMAIN attrMap] :
        \A i, j \in DOMAIN o : i # j => o[i] # o[j]}

\* NewStringMap(attrMap), visiting the keys in order o and placing the
\* array origs at addresses base+1 .. base+len(attrMap): the records it
\* fills, and the slice of wrappers it returns a pointer to.
NewStringMapOrigs(attrMap, o, base) ==
    [a \in (base + 1)..(base + Len(o)) |->
        [Key |-> o[a - base], Value |-> attrMap[o[a - base]]]]

\* Faulty variant of NewStringMapWrappers: every wrapper points to the first
\* element of origs (the address of a variable shared by all iterations).
NewStringMapWrappersShared(o, base) == [i \in 1..Len(o) |-> base + 1]

NewStringMapWrappers(o, base) == [i \in 1..Len(o) |-> base + i]

\* Faulty variant of CopyStringMap: the copy gets a slice header of its own
\* (as if StringMap held the slice and not a pointer to it).
CopySliceHeader(p) == p + 1

\* A by-value copy of a StringMap: the same pointer to the slice header.
CopyStringMap(p) == p

\* ------------------------------------------------------------ reads

\* The loop `for i, a := range *sm.orig { if a.Key == k {...} }` of Get and
\* Delete: the first index (counted from 1) whose record has key k, 0 if none.
Find(heap, s, k) ==
    LET hits == {i \in 1..Len(s) : heap[s[i]].Key = k}
    IN IF hits = {} THEN 0 ELSE CHOOSE i \in hits : \A j \in hits : i <= j

\* Get on a given heap and slice.
GetIn(heap, s, k) ==
    IF Find(heap, s, k) = 0 THEN [orig |-> NIL, ok |-> FALSE]
    ELSE [orig |-> s[Find(heap, s, k)], ok |-> TRUE]

Get(v, k) == GetIn(recs, origs[sm[v]], k)

LenOf(v) == Len(origs[sm[v]])

\* GetStringKeyValue(ix) for an index in range (ix counts from 0).
GetStringKeyValue(v, ix) == [orig |-> origs[sm[v]][ix + 1]]

\* The call just made: the method, the view (or the number of the handle) it
\* was called through, its arguments, what it returned, and the index at
\* which its scan found the key (0 if it did not).  sorted is the set of
\* slices whose most recent call was Sort, and again tells that the slice of
\* this call was in it already.  panic tells that the call did not return:
\* it ended in a run-time panic (a nil pointer dereference or an index out of
\* range).  from is the mapping the stores were made from, in the runs that
\* keep it.
Call(op, v, k, val, ret) ==
    [op |-> op, sm |-> v, k |-> k, v |-> val, ret |-> ret,
     ix |-> Find(recs, origs[sm[v]], k),
     sorted |-> IF op = "Sort" THEN last.sorted \cup {sm[v]}
                ELSE last.sorted \ {sm[v]},
     again |-> op = "Sort" /\ sm[v] \in last.sorted,
     panic |-> FALSE, from |-> last.from]

\* ------------------------------------------------------------ StringMap

\* Faulty variant of AppendNew: the new record is put in front.
PrependNew(p, k, val) ==
    /\ nextAddr <= MaxAlloc
    /\ origs' = [origs EXCEPT ![p] = <<nextAddr>> \o @]
    /\ recs' = (nextAddr :> NewStringKeyValue(k, val)) @@ recs
    /\ nextAddr' = nextAddr + 1

\* *sm.orig = append(*sm.orig, NewStringKeyValue(k, v).orig)
AppendNew(p, k, val) ==
    /\ nextAddr <= MaxAlloc
    /\ origs' = [origs EXCEPT ![p] = Append(@, nextAddr)]
    /\ recs' = (nextAddr :> NewStringKeyValue(k, val)) @@ recs
    /\ nextAddr' = nextAddr + 1

\* akv.SetValue(v) on the record at address a.
SetValue(a, val) ==
    /\ recs' = [recs EXCEPT ![a].Value = val]
    /\ UNCHANGED <<origs, nextAddr>>

\* Faulty variant of Insert: an existing key is overwritten.
InsertOverwrites(v, k, val) ==
    /\ IF ~Get(v, k).ok
       THEN AppendNew(sm[v], k, val)
       ELSE SetValue(Get(v, k).orig, val)
    /\ last' = Call("Insert", v, k, val, NIL)
    /\ UNCHANGED <<sm, kvs, avVars>>

\* Faulty variant of Insert: the pair is appended without looking for the key.
InsertAlways(v, k, val) ==
    /\ AppendNew(sm[v], k, val)
    /\ last' = Call("Insert", v, k, val, NIL)
    /\ UNCHANGED <<sm, kvs, avVars>>

Insert(v, k, val) ==
    /\ IF ~Get(v, k).ok
       THEN AppendNew(sm[v], k, val)
       ELSE UNCHANGED <<origs, recs, nextAddr>>
    /\ last' = Call("Insert", v, k, val, NIL)
    /\ UNCHANGED <<sm, kvs, avVars>>

\* Faulty variant of Update: an absent key is added (the body of Upsert).
UpdateInserts(v, k, val) ==
    /\ IF Get(v, k).ok
       THEN SetValue(Get(v, k).orig, val)
       ELSE AppendNew(sm[v], k, val)
    /\ last' = Call("Update", v, k, val, NIL)
    /\ UNCHANGED <<sm, kvs, avVars>>

Update(v, k, val) ==
    /\ IF Get(v, k).ok
       THEN SetValue(Get(v, k).orig, val)
       ELSE UNCHANGED <<origs, recs, nextAddr>>
    /\ last' = Call("Update", v, k, val, NIL)
    /\ UNCHANGED <<sm, kvs, avVars>>

\* Faulty variant of Upsert: an existing key is left as it is.
UpsertKeepsOld(v, k, val) ==
    /\ IF Get(v, k).ok
       THEN UNCHANGED <<origs, recs, nextAddr>>
       ELSE AppendNew(sm[v], k, val)
    /\ last' = Call("Upsert", v, k, val, NIL)
    /\ UNCHANGED <<sm, kvs, avVars>>

\* Faulty variant of Upsert: an existing pair is replaced by a new record at
\* the same index instead of being written in place.
UpsertReplaces(v, k, val) ==
    /\ IF Get(v, k).ok
       THEN /\ nextAddr <= MaxAlloc
            /\ origs' = [origs EXCEPT ![sm[v]][Find(recs, origs[sm[v]], k)] = nextAddr]
            /\ recs' = Reachable((nextAddr :> NewStringKeyValue(k, val)) @@ recs,
                                 origs', kvs)
            /\ nextAddr' = nextAddr + 1
       ELSE AppendNew(sm[v], k, val)
    /\ last' = Call("Upsert", v, k, val, NIL)
    /\ UNCHANGED <<sm, kvs, avVars>>

\* Faulty variant of Upsert: the pair is appended without looking for the key.
UpsertAppends(v, k, val) ==
    /\ AppendNew(sm[v], k, val)
    /\ last' = Call("Upsert", v, k, val, NIL)
    /\ UNCHANGED <<sm, kvs, avVars>>

Upsert(v, k, val) ==
    /\ IF Get(v, k).ok
       THEN SetValue(Get(v, k).orig, val)
       ELSE AppendNew(sm[v], k, val)
    /\ last' = Call("Upsert", v, k, val, NIL)
    /\ UNCHANGED <<sm, kvs, avVars>>

\* Faulty variant of SwapRemove: the slice is shrunk without first moving
\* the last element into the matching slot.
DropLast(s, i) == SubSeq(s, 1, Len(s) - 1)

\* Faulty variant of SwapRemove: a stable removal, shifting the tail left.
ShiftRemove(s, i) == SubSeq(s, 1, i - 1) \o SubSeq(s, i + 1, Len(s))

\* Delete's two assignments at the matching index i (counted from 1):
\* (*sm.orig)[i] = (*sm.orig)[len-1]; *sm.orig = (*sm.orig)[:len-1].
SwapRemove(s, i) == SubSeq([s EXCEPT ![i] = s[Len(s)]], 1, Len(s) - 1)

Delete(v, k) ==
    LET p == sm[v]
        s == origs[p]
        i == Find(recs, s, k)
    IN
    /\ IF i # 0
       THEN LET after == [origs EXCEPT ![p] = SwapRemove(s, i)]
            IN /\ origs' = after
               /\ recs' = Reachable(recs, after, kvs)
               /\ last' = Call("Delete", v, k, NoValue, TRUE)
       ELSE /\ UNCHANGED <<origs, recs>>
            /\ last' = Call("Delete", v, k, NoValue, FALSE)
    /\ UNCHANGED <<sm, kvs, nextAddr, avVars>>

Sort(v) ==
    LET p == sm[v] IN
    /\ origs' = [origs EXCEPT ![p] = SliceStable(recs, @)]
    /\ last' = Call("Sort", v, NoKey, NoValue, p)
    /\ UNCHANGED <<recs, sm, kvs, nextAddr, avVars>>

\* ------------------------------------------------- StringKeyValue handles

\* The indexes passed to GetStringKeyValue: below, within and beyond any
\* length the slice may have.
Indexes == (0 - 1)..MaxAlloc

\* A call on pair handle number j: the method, its argument and what it
\* returned; the view and the sorted slices are those of the label before.
KVReturn(op, j, val, ret) ==
    [last EXCEPT !.op = op, !.k = NoKey, !.v = val, !.ret = ret, !.ix = j,
                 !.again = FALSE, !.panic = FALSE]

\* A call on pair handle number j that dereferenced a nil orig.
KVPanic(op, j, val) == [KVReturn(op, j, val, NIL) EXCEPT !.panic = TRUE]

\* p, ok := sm.Get(k): the caller keeps the returned pair as its handle, in
\* place of the one it kept before.
GetCall(v, k) ==
    /\ kvs' = <<Get(v, k).orig>>
    /\ recs' = Reachable(recs, origs, kvs')
    /\ last' = Call("Get", v, k, NoValue, Get(v, k).ok)
    /\ UNCHANGED <<origs, sm, nextAddr, slots, hs>>

\* Faulty variant of GetStringKeyValueCall: an index out of range yields the
\* invalid pair instead of a panic.
GetStringKeyValueChecked(v, ix) ==
    /\ kvs' = IF 0 <= ix /\ ix < LenOf(v)
              THEN <<GetStringKeyValue(v, ix).orig>> ELSE <<NIL>>
    /\ recs' = Reachable(recs, origs, kvs')
    /\ last' = Call("GetStringKeyValue", v, NoKey, ix, kvs'[1])
    /\ UNCHANGED <<origs, sm, nextAddr, slots, hs>>

\* p := sm.GetStringKeyValue(ix): (*sm.orig)[ix] panics with an index out of
\* range unless 0 <= ix < len(*sm.orig).
GetStringKeyValueCall(v, ix) ==
    /\ IF 0 <= ix /\ ix < LenOf(v)
       THEN /\ kvs' = <<GetStringKeyValue(v, ix).orig>>
            /\ recs' = Reachable(recs, origs, kvs')
            /\ last' = Call("GetStringKeyValue", v, NoKey, ix,
                            GetStringKeyValue(v, ix).orig)
       ELSE /\ UNCHANGED <<kvs, recs>>
            /\ last' = [Call("GetStringKeyValue", v, NoKey, ix, NIL)
                            EXCEPT !.panic = TRUE]
    /\ UNCHANGED <<origs, sm, nextAddr, slots, hs>>

\* p.Key(), p.Value() and p.SetValue(val) through pair handle number j: each
\* reads or writes a field of *akv.orig, and panics when akv.orig is nil.
KeyCall(j) ==
    /\ last' = IF kvs[j] = NIL THEN KVPanic("Key", j, NoValue)
               ELSE KVReturn("Key", j, NoValue, recs[kvs[j]].Key)
    /\ UNCHANGED <<mapVars, slots, hs>>

ValueCall(j) ==
    /\ last' = IF kvs[j] = NIL THEN KVPanic("Value", j, NoValue)
               ELSE KVReturn("Value", j, NoValue, recs[kvs[j]].Value)
    /\ UNCHANGED <<mapVars, slots, hs>>

SetValueCall(j, val) ==
    /\ IF kvs[j] = NIL
       THEN /\ UNCHANGED <<recs, origs, nextAddr>>
            /\ last' = KVPanic("SetValue", j, val)
       ELSE /\ SetValue(kvs[j], val)
            /\ last' = KVReturn("SetValue", j, val, NIL)
    /\ UNCHANGED <<sm, kvs, slots, hs>>

\* ------------------------------------------------------ AttributeValue

\* A zero-initialized otlpcommon.AttributeKeyValue.
ZeroSlot ==
    [Type |-> 0, StringValue |-> "", IntValue |-> 0, DoubleValue |-> 0,
     BoolValue |-> FALSE]

NewAttributeValueString(v) ==
    [ZeroSlot EXCEPT !.Type = AttributeValueSTRING, !.StringValue = v]

NewAttributeValueInt(v) ==
    [ZeroSlot EXCEPT !.Type = AttributeValueINT, !.IntValue = v]

NewAttributeValueDouble(v) ==
    [ZeroSlot EXCEPT !.Type = AttributeValueDOUBLE, !.DoubleValue = v]

NewAttributeValueBool(v) ==
    [ZeroSlot EXCEPT !.Type = AttributeValueBOOL, !.BoolValue = v]

\* The slots a NewAttributeValue* call may return a handle to.
NewAttributeValues ==
    {NewAttributeValueString(v) : v \in StringVals}
        \cup {NewAttributeValueInt(v) : v \in IntVals}
        \cup {NewAttributeValueDouble(v) : v \in DoubleVals}
        \cup {NewAttributeValueBool(v) : v \in BoolVals}

\* Faulty variant of NewAttributeValueSlice: every wrapper points to the
\* first element of origs.
NewAttributeValueSliceShared(n) == [i \in 1..n |-> 1]

\* NewAttributeValueSlice(n): the array origs, at addresses 1..n, and the
\* wrappers, wrappers[i].orig = &origs[i].
NewAttributeValueSliceOrigs(n) == [a \in 1..n |-> ZeroSlot]

NewAttributeValueSlice(n) == [i \in 1..n |-> i]

\* Faulty variant of CopyAttributeValue: the copy points to a slot of its own.
CopySlot(a) == a + 1

\* A by-value copy of an AttributeValue: the same orig pointer.
CopyAttributeValue(a) == a

\* The getters, through handle number i.
Type(i) == slots[hs[i]].Type
StringVal(i) == slots[hs[i]].StringValue
\* Faulty variant of IntVal: the payload is returned only under its own
\* discriminant, the zero value otherwise.
IntValChecked(i) ==
    IF slots[hs[i]].Type = AttributeValueINT THEN slots[hs[i]].IntValue ELSE 0

IntVal(i) == slots[hs[i]].IntValue
DoubleVal(i) == slots[hs[i]].DoubleValue
BoolVal(i) == slots[hs[i]].BoolValue

\* The setter just called: the method, the number of the handle, the
\* argument, and the addresses of the slots the call wrote: the slot of its
\* handle and every slot whose content changed.
AVCall(op, i, val) ==
    [op |-> op, sm |-> i, k |-> NoKey, v |-> val, ret |-> NIL, ix |-> 0,
     sorted |-> {}, again |-> FALSE, panic |-> FALSE, from |-> last.from,
     touched |-> {hs[i]} \cup {a \in DOMAIN slots : slots'[a] # slots[a]}]

\* A call through handle number i that returned ret without writing a slot.
AVReturn(op, i, val, ret) ==
    [op |-> op, sm |-> i, k |-> NoKey, v |-> val, ret |-> ret, ix |-> 0,
     sorted |-> {}, again |-> FALSE, panic |-> FALSE, from |-> last.from,
     touched |-> {}]

\* A call through handle number i that dereferenced a nil orig.
AVPanic(op, i, val) == [AVReturn(op, i, val, NIL) EXCEPT !.panic = TRUE]

SetString(i, v) ==
    /\ IF hs[i] = NIL
       THEN /\ UNCHANGED slots
            /\ last' = AVPanic("SetString", i, v)
       ELSE /\ slots' = [slots EXCEPT ![hs[i]].Type = AttributeValueSTRING,
                                      ![hs[i]].StringValue = v]
            /\ last' = AVCall("SetString", i, v)
    /\ UNCHANGED <<hs, mapVars>>

\* Faulty variant of SetInt: the slot is rebuilt as a oneof would be, so the
\* payloads of the other types are reset.
SetIntOneof(i, v) ==
    /\ slots' = [slots EXCEPT ![hs[i]] = NewAttributeValueInt(v)]
    /\ last' = AVCall("SetInt", i, v)
    /\ UNCHANGED <<hs, mapVars>>

SetInt(i, v) ==
    /\ IF hs[i] = NIL
       THEN /\ UNCHANGED slots
            /\ last' = AVPanic("SetInt", i, v)
       ELSE /\ slots' = [slots EXCEPT ![hs[i]].Type = AttributeValueINT,
                                      ![hs[i]].IntValue = v]
            /\ last' = AVCall("SetInt", i, v)
    /\ UNCHANGED <<hs, mapVars>>

SetDouble(i, v) ==
    /\ IF hs[i] = NIL
       THEN /\ UNCHANGED slots
            /\ last' = AVPanic("SetDouble", i, v)
       ELSE /\ slots' = [slots EXCEPT ![hs[i]].Type = AttributeValueDOUBLE,
                                      ![hs[i]].DoubleValue = v]
            /\ last' = AVCall("SetDouble", i, v)
    /\ UNCHANGED <<hs, mapVars>>

SetBool(i, v) ==
    /\ IF hs[i] = NIL
       THEN /\ UNCHANGED slots
            /\ last' = AVPanic("SetBool", i, v)
       ELSE /\ slots' = [slots EXCEPT ![hs[i]].Type = AttributeValueBOOL,
                                      ![hs[i]].BoolValue = v]
            /\ last' = AVCall("SetBool", i, v)
    /\ UNCHANGED <<hs, mapVars>>

\* The getters of AttributeValue and what each returns through handle i.
Getters == {"Type", "StringVal", "IntVal", "DoubleVal", "BoolVal"}

GetterResult(op, i) ==
    CASE op = "Type" -> Type(i)
      [] op = "StringVal" -> StringVal(i)
      [] op = "IntVal" -> IntVal(i)
      [] op = "DoubleVal" -> DoubleVal(i)
      [] op = "BoolVal" -> BoolVal(i)

\* Faulty variant of CallGetter: a nil orig is checked for, and the call
\* returns without a value instead of panicking.
CallGetterSoft(op, i) ==
    /\ last' = IF hs[i] = NIL THEN AVReturn(op, i, NoValue, NIL)
               ELSE AVReturn(op, i, NoValue, GetterResult(op, i))
    /\ UNCHANGED <<slots, hs, mapVars>>

\* A getter called through handle number i: it reads a field of *a.orig, and
\* panics when a.orig is nil.
CallGetter(op, i) ==
    /\ last' = IF hs[i] = NIL THEN AVPanic(op, i, NoValue)
               ELSE AVReturn(op, i, NoValue, GetterResult(op, i))
    /\ UNCHANGED <<slots, hs, mapVars>>

\* Faulty variant of FreshSlot: every constructor returns a pointer to one
\* and the same struct, at the first address after nil.
ReuseSlot == NIL + 1

\* The address of a newly allocated otlpcommon.AttributeKeyValue.
FreshSlot == Cardinality(DOMAIN slots) + 1

\* A NewAttributeValue* call: &otlpcommon.AttributeKeyValue{Type: ..., ...}
\* wrapped in a new handle, which the caller keeps as the next of its handles.
Construct(op, v, slot) ==
    /\ slots' = (FreshSlot :> slot) @@ slots
    /\ hs' = Append(hs, FreshSlot)
    /\ last' = AVReturn(op, Len(hs) + 1, v, FreshSlot)
    /\ UNCHANGED mapVars

\* h := hs[i]: the caller keeps a by-value copy of handle i as a new handle.
Copy(i) ==
    /\ hs' = Append(hs, CopyAttributeValue(hs[i]))
    /\ last' = AVReturn("Copy", Len(hs) + 1, i, hs[i])
    /\ UNCHANGED <<slots, mapVars>>

\* var a AttributeValue: the caller keeps a zero-value handle, whose orig is
\* nil, as the next of its handles.
ZeroAttributeValue ==
    /\ hs' = Append(hs, NIL)
    /\ last' = AVReturn("AttributeValue{}", Len(hs) + 1, NoValue, NIL)
    /\ UNCHANGED <<slots, mapVars>>

\* hs := NewAttributeValueSlice(n), called when no slot is allocated yet.
NewAttributeValueSliceCall(n) ==
    /\ slots = <<>> /\ hs = <<>>
    /\ slots' = NewAttributeValueSliceOrigs(n)
    /\ hs' = NewAttributeValueSlice(n)
    /\ last' = AVReturn("NewAttributeValueSlice", 1, n, NIL)
    /\ UNCHANGED mapVars

\* p := NewStringKeyValue(k, val): the caller keeps the new pair, which is
\* in no slice, as its pair handle.
NewStringKeyValueCall(k, val) ==
    /\ nextAddr <= MaxAlloc
    /\ kvs' = <<nextAddr>>
    /\ recs' = Reachable((nextAddr :> NewStringKeyValue(k, val)) @@ recs,
                         origs, kvs')
    /\ nextAddr' = nextAddr + 1
    /\ last' = [KVReturn("NewStringKeyValue", 1, val, nextAddr) EXCEPT !.k = k]
    /\ UNCHANGED <<origs, sm, slots, hs>>

\* ------------------------------------------------------ specifications

\* No call made yet.
NoCall ==
    [op |-> "New", sm |-> "v1", k |-> NoKey, v |-> NoValue, ret |-> NIL,
     ix |-> 0, sorted |-> {}, again |-> FALSE, panic |-> FALSE,
     from |-> <<>>]

NoStringMap ==
    /\ recs = <<>>
    /\ origs = <<>>
    /\ sm = <<>>
    /\ kvs = <<>>
    /\ nextAddr = 1

NoAttributeValue ==
    /\ slots = <<>>
    /\ hs = <<>>
    /\ calls = 0

\* v1 := NewStringMap(attrMap); v2 := v1 (a by-value copy of the view).  The
\* label of the first state is the NewStringMap call with its argument.
Init ==
    /\ \E attrMap \in AttrMaps : \E o \in RangeOrders(attrMap) :
        /\ recs = NewStringMapOrigs(attrMap, o, 0)
        /\ origs = [p \in {1, CopyStringMap(1)} |-> NewStringMapWrappers(o, 0)]
        /\ sm = [v1 |-> 1, v2 |-> CopyStringMap(1)]
        /\ nextAddr = Len(o) + 1
        /\ last = [NoCall EXCEPT !.op = "NewStringMap", !.v = attrMap]
    /\ kvs = <<>>
    /\ NoAttributeValue

Next ==
    \E v \in Views :
        \/ \E k \in Keys, val \in Values : Insert(v, k, val)
        \/ \E k \in Keys, val \in Values : Update(v, k, val)
        \/ \E k \in Keys, val \in Values : Upsert(v, k, val)
        \/ \E k \in Keys : Delete(v, k)
        \/ Sort(v)

Spec == Init /\ [][Next]_vars

\* v1 := NewStringMap(m1); v2 := NewStringMap(m2): two separate stores, the
\* one under test (v1) and the expected one (v2), compared after Sort on both
\* as in assert.EqualValues(t, expected.Sort(), actual.Sort()).
InitCanon ==
    /\ \E m1 \in AttrMaps, m2 \in AttrMaps :
       \E o1 \in RangeOrders(m1), o2 \in RangeOrders(m2) :
        /\ recs = NewStringMapOrigs(m1, o1, 0) @@ NewStringMapOrigs(m2, o2, Len(o1))
        /\ origs = (1 :> NewStringMapWrappers(o1, 0))
                    @@ (2 :> NewStringMapWrappers(o2, Len(o1)))
        /\ sm = [v1 |-> 1, v2 |-> 2]
        /\ nextAddr = Len(o1) + Len(o2) + 1
    /\ kvs = <<>>
    /\ NoAttributeValue
    /\ last = NoCall

NextCanon ==
    \/ \E k \in Keys : Delete("v1", k)
    \/ \E v \in Views : Sort(v)

SpecCanon == InitCanon /\ [][NextCanon]_vars

\* h1 := NewAttributeValue*(v); h2 := h1 (a by-value copy of the handle).
InitAlias ==
    /\ \E a \in NewAttributeValues :
        /\ slots = [x \in {1, CopyAttributeValue(1)} |-> a]
        /\ hs = <<1, CopyAttributeValue(1)>>
    /\ calls = 0
    /\ NoStringMap
    /\ last = NoCall

\* hs := NewAttributeValueSlice(n).
InitBatch ==
    /\ \E n \in 0..MaxBatch :
        /\ slots = NewAttributeValueSliceOrigs(n)
        /\ hs = NewAttributeValueSlice(n)
        /\ last = [NoCall EXCEPT !.op = "NewAttributeValueSlice", !.v = n]
    /\ calls = 0
    /\ NoStringMap

\* One more call on a handle, while the run may make one: the program has
\* not panicked and the bound is not reached.
Counted ==
    /\ ~last.panic
    /\ calls < MaxCalls
    /\ calls' = calls + 1

\* A setter is called through one of the handles held.
NextAV ==
    \/ \E i \in Handles, v \in StringVals :
        i \in DOMAIN hs /\ Counted /\ SetString(i, v)
    \/ \E i \in Handles, v \in IntVals :
        i \in DOMAIN hs /\ Counted /\ SetInt(i, v)
    \/ \E i \in Handles, v \in DoubleVals :
        i \in DOMAIN hs /\ Counted /\ SetDouble(i, v)
    \/ \E i \in Handles, v \in BoolVals :
        i \in DOMAIN hs /\ Counted /\ SetBool(i, v)

SpecAlias == InitAlias /\ [][NextAV]_vars

SpecBatch == InitBatch /\ [][NextAV]_vars

\* No handle yet.
InitCtor ==
    /\ NoAttributeValue
    /\ NoStringMap
    /\ last = NoCall

\* Handles are made by the constructors and by copying, and every getter
\* and setter is called through them.
NextCtor ==
    \/ \E v \in StringVals :
        /\ Len(hs) + 1 \in Handles /\ Counted
        /\ Construct("NewAttributeValueString", v, NewAttributeValueString(v))
    \/ \E v \in IntVals :
        /\ Len(hs) + 1 \in Handles /\ Counted
        /\ Construct("NewAttributeValueInt", v, NewAttributeValueInt(v))
    \/ \E v \in DoubleVals :
        /\ Len(hs) + 1 \in Handles /\ Counted
        /\ Construct("NewAttributeValueDouble", v, NewAttributeValueDouble(v))
    \/ \E v \in BoolVals :
        /\ Len(hs) + 1 \in Handles /\ Counted
        /\ Construct("NewAttributeValueBool", v, NewAttributeValueBool(v))
    \/ \E i \in Handles :
        i \in DOMAIN hs /\ Len(hs) + 1 \in Handles /\ Counted /\ Copy(i)
    \/ \E op \in Getters, i \in Handles :
        i \in DOMAIN hs /\ Counted /\ CallGetter(op, i)
    \/ NextAV

SpecCtor == InitCtor /\ [][NextCtor]_vars

\* The program runs on only while no call has panicked; the calls made here
\* are not counted.
Running == ~last.panic /\ calls' = calls

\* The caller of Spec also takes pair handles, by key and by index, and
\* reads and writes through the pair handle it keeps; all through view v1.
NextPair ==
    \/ \E k \in Keys, val \in Values : Running /\ Insert("v1", k, val)
    \/ \E k \in Keys, val \in Values : Running /\ Update("v1", k, val)
    \/ \E k \in Keys, val \in Values : Running /\ Upsert("v1", k, val)
    \/ \E k \in Keys : Running /\ Delete("v1", k)
    \/ Running /\ Sort("v1")
    \/ \E k \in Keys : Running /\ GetCall("v1", k)
    \/ \E ix \in Indexes : Running /\ GetStringKeyValueCall("v1", ix)
    \/ \E j \in DOMAIN kvs : Running /\ KeyCall(j)
    \/ \E j \in DOMAIN kvs : Running /\ ValueCall(j)
    \/ \E j \in DOMAIN kvs, val \in Values : Running /\ SetValueCall(j, val)

SpecPair == Init /\ [][NextPair]_vars

\* v1 := NewStringMap(attrMap) for a mapping of at most the key "a".
InitFault ==
    /\ \E attrMap \in {m \in AttrMaps : DOMAIN m \subseteq {<<97>>}} :
       \E o \in RangeOrders(attrMap) :
        /\ recs = NewStringMapOrigs(attrMap, o, 0)
        /\ origs = [p \in {1, CopyStringMap(1)} |-> NewStringMapWrappers(o, 0)]
        /\ sm = [v1 |-> 1, v2 |-> CopyStringMap(1)]
        /\ nextAddr = Len(o) + 1
    /\ kvs = <<>>
    /\ NoAttributeValue
    /\ last = NoCall

\* The caller makes handles in every way there is: the four constructors,
\* a batch, a zero-value AttributeValue, Get on the store and
\* NewStringKeyValue; and it calls every method of the handles it keeps.
NextFault ==
    \/ /\ Len(hs) + 1 \in Handles /\ Counted
       /\ Construct("NewAttributeValueString", "s", NewAttributeValueString("s"))
    \/ /\ Len(hs) + 1 \in Handles /\ Counted
       /\ Construct("NewAttributeValueInt", 7, NewAttributeValueInt(7))
    \/ /\ Len(hs) + 1 \in Handles /\ Counted
       /\ Construct("NewAttributeValueDouble", 3, NewAttributeValueDouble(3))
    \/ /\ Len(hs) + 1 \in Handles /\ Counted
       /\ Construct("NewAttributeValueBool", TRUE, NewAttributeValueBool(TRUE))
    \/ \E n \in 1..MaxBatch : Counted /\ NewAttributeValueSliceCall(n)
    \/ Len(hs) + 1 \in Handles /\ Counted /\ ZeroAttributeValue
    \/ \E op \in Getters, i \in Handles :
        i \in DOMAIN hs /\ Counted /\ CallGetter(op, i)
    \/ \E i \in Handles : i \in DOMAIN hs /\ Counted /\ SetString(i, "s")
    \/ \E i \in Handles : i \in DOMAIN hs /\ Counted /\ SetInt(i, 7)
    \/ \E i \in Handles : i \in DOMAIN hs /\ Counted /\ SetDouble(i, 3)
    \/ \E i \in Handles : i \in DOMAIN hs /\ Counted /\ SetBool(i, TRUE)
    \/ \E k \in Keys : Counted /\ GetCall("v1", k)
    \/ Counted /\ NewStringKeyValueCall(<<97>>, "1")
    \/ \E j \in DOMAIN kvs : Counted /\ KeyCall(j)
    \/ \E j \in DOMAIN kvs : Counted /\ ValueCall(j)
    \/ \E j \in DOMAIN kvs : Counted /\ SetValueCall(j, "2")

SpecFault == InitFault /\ [][NextFault]_vars

\* v1 := NewStringMap(attrMap); v2 := v1; v3 := NewStringMap(attrMap): two
\* stores made from the same mapping, each in any order of iteration, and a
\* copy of the first view.  The label keeps the mapping.
InitNew ==
    /\ \E attrMap \in AttrMaps :
       \E o1 \in RangeOrders(attrMap), o2 \in RangeOrders(attrMap) :
        /\ recs = NewStringMapOrigs(attrMap, o1, 0)
                    @@ NewStringMapOrigs(attrMap, o2, Len(o1))
        /\ origs = [p \in {1, CopyStringMap(1)} |-> NewStringMapWrappers(o1, 0)]
                    @@ (2 :> NewStringMapWrappers(o2, Len(o1)))
        /\ sm = [v1 |-> 1, v2 |-> CopyStringMap(1), v3 |-> 2]
        /\ nextAddr = Len(o1) + Len(o2) + 1
        /\ last = [NoCall EXCEPT !.op = "NewStringMap", !.v = attrMap,
                                 !.from = attrMap]
    /\ kvs = <<>>
    /\ NoAttributeValue

\* The stores are sorted, and a store that is empty gets a first pair.
NextNew ==
    \/ \E v \in DOMAIN sm : Sort(v)
    \/ \E v \in DOMAIN sm, k \in Keys, val \in Values :
        LenOf(v) = 0 /\ Insert(v, k, val)
    \/ \E v \in DOMAIN sm, k \in Keys, val \in Values :
        LenOf(v) = 0 /\ Upsert(v, k, val)

SpecNew == InitNew /\ [][NextNew]_vars

\* ================================================================ claims

\* The slice a view reads, and the records of a slice in order.
SliceOf(v) == origs[sm[v]]
Contents(heap, s) == [i \in 1..Len(s) |-> heap[s[i]]]
KeyA == <<97>>

\* C1: Insert never overwrites.  A step that is Insert(k, v2) through a view
\* in which k is present leaves every slice and every record as it was, and
\* Get(k) afterwards returns the same record, with the value it had.
C1_InsertNeverOverwrites ==
    [][(last'.op = "Insert" /\ Get(last'.sm, last'.k).ok) =>
        LET v == last'.sm
            k == last'.k
            after == GetIn(recs', origs'[sm'[v]], k)
        IN /\ origs' = origs
           /\ recs' = recs
           /\ after = Get(v, k)
           /\ after.ok
           /\ recs'[after.orig].Value = recs[Get(v, k).orig].Value]_vars

\* C1 witness: Insert("a", "2") found "a" present and the store is still the
\* single pair ("a", "1"), as after Insert("a","1"), Insert("a","2").
C1_Witness ==
    /\ last.op = "Insert" /\ last.k = KeyA /\ last.v = "2" /\ last.ix # 0
    /\ Contents(recs, SliceOf(last.sm)) = <<[Key |-> KeyA, Value |-> "1"]>>
    /\ Get(last.sm, KeyA).ok
    /\ recs[Get(last.sm, KeyA).orig].Value = "1"

\* C2: Upsert updates a present key and inserts an absent one.  After a step
\* that is Upsert(k, v), Get(k) returns a record with value v; if k was
\* present the slice (length and order) and every other record are unchanged;
\* if k was absent the slice grew by one, the old elements kept their places
\* and records, and the last element is the new pair (k, v).
C2_Upsert ==
    [][last'.op = "Upsert" =>
        LET v == last'.sm
            k == last'.k
            s == origs[sm[v]]
            t == origs'[sm'[v]]
            before == Get(v, k)
            after == GetIn(recs', t, k)
        IN /\ after.ok
           /\ recs'[after.orig] = [Key |-> k, Value |-> last'.v]
           /\ before.ok =>
                /\ origs' = origs
                /\ DOMAIN recs' = DOMAIN recs
                /\ after.orig = before.orig
                /\ \A a \in DOMAIN recs : a # before.orig => recs'[a] = recs[a]
           /\ ~before.ok =>
                /\ Len(t) = Len(s) + 1
                /\ SubSeq(t, 1, Len(s)) = s
                /\ after.orig = t[Len(t)]
                /\ \A a \in DOMAIN recs : recs'[a] = recs[a]]_vars

\* C2 witness: Upsert("a", "2") found "a" present and Get("a") now returns
\* value "2", as after Upsert("a","1"), Upsert("a","2").
C2_Witness ==
    /\ last.op = "Upsert" /\ last.k = KeyA /\ last.v = "2" /\ last.ix # 0
    /\ Contents(recs, SliceOf(last.sm)) = <<[Key |-> KeyA, Value |-> "2"]>>
    /\ Get(last.sm, KeyA).ok
    /\ recs[Get(last.sm, KeyA).orig].Value = "2"

\* C3: Delete.  A step that is Delete(k) on a present key returns true,
\* shortens the slice by exactly one and leaves Get(k) false; on an absent
\* key it returns false and leaves every slice and record unchanged.  And in
\* any step, a key that Get did not find is found afterwards only if the
\* step is an Insert or Upsert of that key on that slice.
C3_Delete ==
    [][/\ last'.op = "Delete" =>
            LET v == last'.sm
                k == last'.k
                s == origs[sm[v]]
                t == origs'[sm'[v]]
            IN /\ Get(v, k).ok =>
                    /\ last'.ret = TRUE
                    /\ Len(t) = Len(s) - 1
                    /\ ~GetIn(recs', t, k).ok
               /\ ~Get(v, k).ok =>
                    /\ last'.ret = FALSE
                    /\ origs' = origs
                    /\ recs' = recs
       /\ \A v \in Views, k \in Keys :
            (~Get(v, k).ok /\ GetIn(recs', origs'[sm'[v]], k).ok) =>
                /\ last'.op \in {"Insert", "Upsert"}
                /\ last'.k = k
                /\ sm[last'.sm] = sm[v]]_vars

\* C3 witness: Delete found its key in a slice of three, returned true, and
\* the slice now has two elements, none with that key.
C3_Witness ==
    /\ last.op = "Delete" /\ last.ret = TRUE /\ last.ix # 0
    /\ LenOf(last.sm) = 2
    /\ ~Get(last.sm, last.k).ok

\* C4: view sharing.  The two views over the same slice pointer read the
\* same thing after every call: the same Len(), the same pair at every
\* index, and the same result of Get for every key.
C4_ViewSharing ==
    \A v \in Views, w \in Views :
        /\ LenOf(v) = LenOf(w)
        /\ \A ix \in 0..(LenOf(v) - 1) :
            /\ GetStringKeyValue(v, ix) = GetStringKeyValue(w, ix)
            /\ recs[GetStringKeyValue(v, ix).orig] = recs[GetStringKeyValue(w, ix).orig]
        /\ \A k \in Keys : Get(v, k) = Get(w, k)

\* C4 witness: an Insert through v1 appended a third pair, and v2 reads it.
C4_Witness ==
    /\ last.op = "Insert" /\ last.sm = "v1" /\ last.ix = 0
    /\ LenOf("v2") = 3
    /\ Get("v2", last.k).ok
    /\ recs[GetStringKeyValue("v2", 2).orig] = [Key |-> last.k, Value |-> last.v]

\* C5: value-handle aliasing.  With h2 a by-value copy of h1, Type() and the
\* four getters return the same through both after every setter call, and
\* after a setter called through either handle, every handle's Type() is that
\* setter's discriminant and its matching getter returns the value just set.
C5_HandleAliasing ==
    /\ \A i \in DOMAIN hs, j \in DOMAIN hs :
        /\ Type(i) = Type(j)
        /\ StringVal(i) = StringVal(j)
        /\ IntVal(i) = IntVal(j)
        /\ DoubleVal(i) = DoubleVal(j)
        /\ BoolVal(i) = BoolVal(j)
    /\ \A i \in DOMAIN hs :
        /\ last.op = "SetString" =>
            Type(i) = AttributeValueSTRING /\ StringVal(i) = last.v
        /\ last.op = "SetInt" =>
            Type(i) = AttributeValueINT /\ IntVal(i) = last.v
        /\ last.op = "SetDouble" =>
            Type(i) = AttributeValueDOUBLE /\ DoubleVal(i) = last.v
        /\ last.op = "SetBool" =>
            Type(i) = AttributeValueBOOL /\ BoolVal(i) = last.v

\* C5 witness: SetInt(7) was called through the copy h2, and h1 reads type
\* INT and value 7 while still holding the string it was constructed with.
C5_Witness ==
    /\ last.op = "SetInt" /\ last.sm = 2 /\ last.v = 7
    /\ Type(1) = AttributeValueINT
    /\ IntVal(1) = 7
    /\ StringVal(1) = "s"

\* The set of (key, value) pairs of a view.
PairSet(v) == {recs[a] : a \in Range(SliceOf(v))}

\* Lexicographic order of byte strings, stated on its own: the order in
\* which sorted keys are expected to stand.
RECURSIVE LexBefore(_, _)
LexBefore(a, b) ==
    IF b = <<>> THEN FALSE
    ELSE IF a = <<>> THEN TRUE
    ELSE IF Head(a) # Head(b) THEN Head(a) < Head(b)
    ELSE LexBefore(Tail(a), Tail(b))

Ascending(c) == \A i \in 1..(Len(c) - 1) : LexBefore(c[i].Key, c[i + 1].Key)

\* C6: Sort canonicalization.  When the most recent call on each of the two
\* separate stores was Sort and the stores hold the same set of (key, value)
\* pairs, they are element-wise equal: the same length and the same key and
\* value at every index, with keys in ascending order.
C6_SortCanonical ==
    ({sm["v1"], sm["v2"]} \subseteq last.sorted /\ PairSet("v1") = PairSet("v2")) =>
        /\ LenOf("v1") = LenOf("v2")
        /\ Contents(recs, SliceOf("v1")) = Contents(recs, SliceOf("v2"))
        /\ Ascending(Contents(recs, SliceOf("v1")))

\* C6 witness: both stores were sorted and hold the same three pairs; the
\* first was built in an order that Sort had to change (its records are no
\* longer in allocation order), the second was built in ascending order.
C6_Witness ==
    /\ {sm["v1"], sm["v2"]} \subseteq last.sorted
    /\ PairSet("v1") = PairSet("v2")
    /\ LenOf("v1") = 3
    /\ SliceOf("v1") = <<3, 1, 2>>
    /\ SliceOf("v2") = <<4, 5, 6>>

\* C7: Sort idempotence.  A Sort step on a slice whose most recent call was
\* already Sort changes no slice and no record; and every Sort step returns
\* the view it was called on, over the same slice pointer.
C7_SortIdempotent ==
    [][last'.op = "Sort" =>
        /\ sm[last'.sm] \in last.sorted => (origs' = origs /\ recs' = recs)
        /\ last'.ret = sm[last'.sm]
        /\ sm' = sm]_vars

\* C7 witness: Sort was called twice in a row on a slice of three whose
\* records are not in allocation order.
C7_Witness ==
    /\ last.op = "Sort" /\ last.again
    /\ LenOf(last.sm) = 3
    /\ \E i \in 1..2 : SliceOf(last.sm)[i] > SliceOf(last.sm)[i + 1]

\* The setters of AttributeValue.
Setters == {"SetString", "SetInt", "SetDouble", "SetBool"}

\* C8: batch independence.  NewAttributeValueSlice(n) returns exactly n
\* handles, each pointing to a slot, no two to the same one; and a setter
\* called through handle i changes no slot but its own, so that the slot of
\* every other handle j, with its Type() and four getters, is left unchanged.
C8_BatchIndependence ==
    /\ last.op = "NewAttributeValueSlice" => Len(hs) = last.v
    /\ \A i \in DOMAIN hs : hs[i] \in DOMAIN slots
    /\ \A i \in DOMAIN hs, j \in DOMAIN hs : i # j => hs[i] # hs[j]
    /\ last.op \in Setters =>
        /\ last.touched = {hs[last.sm]}
        /\ \A j \in DOMAIN hs : j # last.sm => hs[j] \notin last.touched

\* C8 witness: in a batch of two, SetInt(7) through the first handle wrote
\* its slot, and the second handle still reads a zero slot.
C8_Witness ==
    /\ Len(hs) = 2
    /\ last.op = "SetInt" /\ last.sm = 1 /\ last.v = 7
    /\ last.touched = {hs[1]}
    /\ IntVal(1) = 7
    /\ slots[hs[2]] = ZeroSlot

\* C9: insertion order is preserved across Insert, Update and Upsert.  In a
\* step that is one of these calls, every element of the slice keeps its
\* index and its key, and if the slice grows it grows by one element, placed
\* at index Len()-1, whose key is the key of the call, which was absent.
C9_OrderPreserved ==
    [][last'.op \in {"Insert", "Update", "Upsert"} =>
        LET v == last'.sm
            s == origs[sm[v]]
            t == origs'[sm'[v]]
        IN /\ Len(t) >= Len(s)
           /\ SubSeq(t, 1, Len(s)) = s
           /\ \A i \in 1..Len(s) : recs'[t[i]].Key = recs[s[i]].Key
           /\ Len(t) > Len(s) =>
                /\ Len(t) = Len(s) + 1
                /\ ~Get(v, last'.k).ok
                /\ last'.op # "Update"
                /\ recs'[t[Len(t)]].Key = last'.k]_vars

\* C9 witness: an Upsert of an absent key appended the third element.
C9_Witness ==
    /\ last.op = "Upsert" /\ last.ix = 0
    /\ LenOf(last.sm) = 3
    /\ recs[GetStringKeyValue(last.sm, LenOf(last.sm) - 1).orig].Key = last.k

\* C10: swap-remove shape of Delete.  In a step that is Delete(k) matching
\* index i (from 1) of a slice of length n, the slice afterwards has length
\* n-1, every index j <= n-1 other than i holds the record it held, index i
\* (if i < n) holds the record that was last, and the records of the slice
\* are those it had without the deleted one, each once and unchanged.
C10_SwapRemove ==
    [][(last'.op = "Delete" /\ Get(last'.sm, last'.k).ok) =>
        LET v == last'.sm
            s == origs[sm[v]]
            t == origs'[sm'[v]]
            n == Len(s)
            i == Find(recs, s, last'.k)
        IN /\ Len(t) = n - 1
           /\ \A j \in 1..(n - 1) : j # i => t[j] = s[j]
           /\ i < n => t[i] = s[n]
           /\ Range(t) = Range(s) \ {s[i]}
           /\ \A j \in 1..Len(t), l \in 1..Len(t) : j # l => t[j] # t[l]
           /\ \A a \in Range(t) : recs'[a] = recs[a]]_vars

\* C10 witness: Delete matched the first of three elements, and the element
\* that was last (allocated third) now stands first, before the second.
C10_Witness ==
    /\ last.op = "Delete" /\ last.ret = TRUE /\ last.ix = 1
    /\ SliceOf(last.sm) = <<3, 2>>

C12_SetterFrame ==
    [][last'.op \in Setters =>
        LET old == slots[hs[last'.sm]]
            new == slots'[hs'[last'.sm]]
        IN /\ last'.op = "SetString" =>
                new = [old EXCEPT !.Type = AttributeValueSTRING,
                                  !.StringValue = last'.v]
           /\ last'.op = "SetInt" =>
                new = [old EXCEPT !.Type = AttributeValueINT,
                                  !.IntValue = last'.v]
           /\ last'.op = "SetDouble" =>
                new = [old EXCEPT !.Type = AttributeValueDOUBLE,
                                  !.DoubleValue = last'.v]
           /\ last'.op = "SetBool" =>
                new = [old EXCEPT !.Type = AttributeValueBOOL,
                                  !.BoolValue = last'.v]]_vars

\* C12 witness: after SetBool(true) the slot has type BOOL and still holds
\* the string, the integer and the double written before it.
C12_Witness ==
    /\ last.op = "SetBool" /\ last.v = TRUE
    /\ slots[hs[last.sm]] =
        [Type |-> AttributeValueBOOL, StringValue |-> "s", IntValue |-> 7,
         DoubleValue |-> 3, BoolValue |-> TRUE]

\* What a payload getter is expected to return through handle i after a step,
\* old[j] being what it returned through handle j before: the argument of the
\* step if the step is the getter's own setter called through a handle of the
\* same slot, what it returned before if the handle existed, and for a new
\* handle the argument of the matching constructor, what the copied handle
\* returned, or the zero value.
LastWritten(setter, ctor, zero, old, i) ==
    IF last'.op = setter /\ hs'[last'.sm] = hs'[i] THEN last'.v
    ELSE IF i \in DOMAIN hs THEN old[i]
    ELSE IF last'.op = ctor THEN last'.v
    ELSE IF last'.op = "Copy" THEN old[last'.v]
    ELSE zero

\* C13: wrong-discriminant getter access is not an error.  Every getter call
\* through a constructed handle returns, whatever Type() is, and returns the
\* content of its own field; and after every step each payload getter returns
\* the value most recently written to its field by the matching constructor
\* or setter (the zero value if there was none), whichever other setters
\* were called since.  In particular SetInt(i) right after
\* NewAttributeValueString(s) leaves Type() INT, IntVal() i, StringVal() s.
C13_WrongGetter ==
    [][/\ last'.op \in Getters =>
            /\ ~last'.panic
            /\ last'.ret = GetterResult(last'.op, last'.sm)
       /\ \A i \in DOMAIN hs' :
            /\ StringVal(i)' = LastWritten("SetString", "NewAttributeValueString",
                                    "", [j \in DOMAIN hs |-> StringVal(j)], i)
            /\ IntVal(i)' = LastWritten("SetInt", "NewAttributeValueInt",
                                    0, [j \in DOMAIN hs |-> IntVal(j)], i)
            /\ DoubleVal(i)' = LastWritten("SetDouble", "NewAttributeValueDouble",
                                    0, [j \in DOMAIN hs |-> DoubleVal(j)], i)
            /\ BoolVal(i)' = LastWritten("SetBool", "NewAttributeValueBool",
                                    FALSE, [j \in DOMAIN hs |-> BoolVal(j)], i)
       /\ (/\ last.op = "NewAttributeValueString"
           /\ last'.op = "SetInt"
           /\ last'.sm = last.sm) =>
            /\ Type(last.sm)' = AttributeValueINT
            /\ IntVal(last.sm)' = last'.v
            /\ StringVal(last.sm)' = last.v]_vars

\* C13 witness: NewAttributeValueString("s"), SetInt(7), then StringVal()
\* returned "s" although Type() is INT.
C13_Witness ==
    /\ Len(hs) = 1 /\ calls = 3
    /\ last.op = "StringVal" /\ ~last.panic /\ last.ret = "s"
    /\ Type(1) = AttributeValueINT
    /\ IntVal(1) = 7

\* The constructors of AttributeValue.
Constructors ==
    {"NewAttributeValueString", "NewAttributeValueInt",
     "NewAttributeValueDouble", "NewAttributeValueBool"}

\* C16: constructors.  A step that is NewAttributeValueString/Int/Double/
\* Bool(v) gives the caller one new handle whose Type() is the constructor's
\* discriminant and whose matching getter returns v; the handle points to a
\* slot that did not exist before, so no handle made earlier points to it,
\* and every slot that existed is left as it was.
C16_Constructors ==
    [][last'.op \in Constructors =>
        LET n == last'.sm
            new == slots'[hs'[n]]
        IN /\ DOMAIN hs' = DOMAIN hs \cup {n} /\ n \notin DOMAIN hs
           /\ last'.op = "NewAttributeValueString" =>
                new.Type = AttributeValueSTRING /\ new.StringValue = last'.v
           /\ last'.op = "NewAttributeValueInt" =>
                new.Type = AttributeValueINT /\ new.IntValue = last'.v
           /\ last'.op = "NewAttributeValueDouble" =>
                new.Type = AttributeValueDOUBLE /\ new.DoubleValue = last'.v
           /\ last'.op = "NewAttributeValueBool" =>
                new.Type = AttributeValueBOOL /\ new.BoolValue = last'.v
           /\ hs'[n] \notin DOMAIN slots
           /\ \A j \in DOMAIN hs : hs'[j] = hs[j] /\ hs[j] # hs'[n]
           /\ \A a \in DOMAIN slots : slots'[a] = slots[a]]_vars

\* C16 witness: NewAttributeValueInt(7) made the second handle, of type INT
\* and value 7, while the first handle still reads the string "s" it was
\* constructed with.
C16_Witness ==
    /\ Len(hs) = 2 /\ calls = 2
    /\ last.op = "NewAttributeValueInt" /\ last.sm = 2 /\ last.v = 7
    /\ Type(2) = AttributeValueINT /\ IntVal(2) = 7
    /\ hs[1] # hs[2]
    /\ Type(1) = AttributeValueSTRING /\ StringVal(1) = "s"

\* C14: positional access.  A step that is GetStringKeyValue(ix) on a slice
\* of length n returns, when 0 <= ix < n, a pair whose orig is the record
\* that stands at index ix, with that record unchanged; when ix < 0 or
\* ix >= n it panics and gives the caller no pair, and so it does for the
\* index n right after a Delete that shrank the slice from n+1 to n.
C14_PositionalAccess ==
    [][last'.op = "GetStringKeyValue" =>
        LET v == last'.sm
            ix == last'.v
            s == origs[sm[v]]
        IN /\ origs' = origs
           /\ (0 <= ix /\ ix < Len(s)) =>
                /\ ~last'.panic
                /\ last'.ret = s[ix + 1]
                /\ kvs' = <<s[ix + 1]>>
                /\ recs'[kvs'[1]] = recs[s[ix + 1]]
           /\ (ix < 0 \/ ix >= Len(s)) =>
                /\ last'.panic
                /\ kvs' = kvs
                /\ recs' = recs
           /\ (last.op = "Delete" /\ last.ret = TRUE /\ ix = Len(s)) =>
                last'.panic]_vars

\* C14 witness: GetStringKeyValue(2) panicked on a slice of two elements
\* that had three before a Delete (three records were allocated).
C14_Witness ==
    /\ last.op = "GetStringKeyValue" /\ last.v = 2 /\ last.panic
    /\ LenOf(last.sm) = 2
    /\ nextAddr = 4

\* C19: pair-handle stability.  In every step other than the call that
\* replaces it, a pair handle p the caller keeps stays the same pointer to
\* the same record, with the same key k, and its value changes only by
\* p.SetValue or, while the record is in the slice, by Update or Upsert on
\* k.  While the record is in the slice it stays there through every step
\* but Delete(k), whatever index it moves to, Get(k) returns that very
\* record, so that p.SetValue(v) is what a later Get(k) reads, and Update or
\* Upsert on k is what p.Value() reads.  Once the record is out of the slice
\* it stays out: p.SetValue changes nothing read through the store, and
\* Get(k), also after k is inserted again, never returns p's record.
C19_PairStability ==
    [][(/\ kvs # <<>>
        /\ kvs[1] # NIL
        /\ last'.op \notin {"Get", "GetStringKeyValue"}) =>
        LET p == kvs[1]
            k == recs[p].Key
            s == origs[sm["v1"]]
            t == origs'[sm'["v1"]]
            deleted == last'.op = "Delete" /\ last'.k = k
            written == last'.op \in {"Update", "Upsert"} /\ last'.k = k
        IN /\ kvs' = kvs
           /\ p \in DOMAIN recs'
           /\ recs'[p].Key = k
           /\ last'.op = "SetValue" => recs'[p].Value = last'.v
           /\ recs'[p].Value # recs[p].Value =>
                (last'.op = "SetValue" \/ (p \in Range(s) /\ written))
           /\ p \in Range(s) =>
                /\ p \in Range(t) <=> ~deleted
                /\ ~deleted => GetIn(recs', t, k) = [orig |-> p, ok |-> TRUE]
                /\ written => recs'[p].Value = last'.v
           /\ p \notin Range(s) =>
                /\ p \notin Range(t)
                /\ GetIn(recs', t, k).orig # p
                /\ last'.op = "SetValue" =>
                    Contents(recs', t) = Contents(recs, s)]_vars

\* C19 witness: the caller keeps the pair of a key that was deleted and then
\* inserted again; p.SetValue("2") was just called, and Get of that key
\* returns another record, which still has value "1".
C19_Witness ==
    /\ last.op = "SetValue" /\ last.v = "2" /\ ~last.panic
    /\ kvs[1] \notin Range(SliceOf("v1"))
    /\ recs[kvs[1]].Value = "2"
    /\ Get("v1", recs[kvs[1]].Key).ok
    /\ Get("v1", recs[kvs[1]].Key).orig # kvs[1]
    /\ recs[Get("v1", recs[kvs[1]].Key).orig].Value = "1"

\* The methods of StringKeyValue.
PairMethods == {"Key", "Value", "SetValue"}

\* C15: uninitialized handles are fatal.  A getter or setter call panics
\* exactly when the orig of its handle is nil, and a Key, Value or SetValue
\* call exactly when the orig of its pair is nil; a call that panics returns
\* nothing and writes nothing.  The zero-value AttributeValue has a nil orig
\* and so has the pair Get returns with false, while the handles made by the
\* constructors, by NewAttributeValueSlice and by NewStringKeyValue and the
\* pair Get returns with true point to a slot or a record, and no step makes
\* a handle nil: so the fault is met on the first two kinds of handle at
\* every call and on the others at none.
C15_UninitializedFatal ==
    [][/\ last'.op \in Getters \cup Setters =>
            (last'.panic <=> hs[last'.sm] = NIL)
       /\ last'.op \in PairMethods =>
            (last'.panic <=> kvs[last'.ix] = NIL)
       /\ last'.panic =>
            /\ last'.ret = NIL
            /\ UNCHANGED <<recs, origs, slots, hs, kvs>>
       /\ last'.op = "AttributeValue{}" => hs'[last'.sm] = NIL
       /\ last'.op \in Constructors => hs'[last'.sm] \in DOMAIN slots'
       /\ last'.op = "NewAttributeValueSlice" =>
            /\ Len(hs') = last'.v
            /\ \A i \in DOMAIN hs' : hs'[i] \in DOMAIN slots'
       /\ last'.op = "Get" =>
            /\ last'.ret = FALSE => kvs' = <<NIL>>
            /\ last'.ret = TRUE => kvs'[1] \in DOMAIN recs'
       /\ last'.op = "NewStringKeyValue" => kvs'[1] \in DOMAIN recs'
       /\ NIL \notin DOMAIN slots' \cup DOMAIN recs'
       /\ \A i \in DOMAIN hs : i \in DOMAIN hs' /\ hs'[i] = hs[i]
       /\ kvs' # kvs => last'.op \in {"Get", "NewStringKeyValue"}]_vars

\* C15 witness: the caller declared a zero-value AttributeValue, Get
\* returned false, and a Value() call on the pair it returned panicked.
C15_Witness ==
    /\ hs = <<NIL>>
    /\ kvs = <<NIL>>
    /\ last.op = "Value" /\ last.panic

\* C17: key uniqueness.  In every reachable state of a store made by
\* NewStringMap from any mapping, the empty one included, and changed by any
\* calls through its two views, no two elements of the slice have the same
\* key, so Len() is the number of keys for which Get returns true.
C17_KeyUniqueness ==
    \A v \in Views :
        /\ \A i \in 1..LenOf(v), j \in 1..LenOf(v) :
            i # j => recs[SliceOf(v)[i]].Key # recs[SliceOf(v)[j]].Key
        /\ LenOf(v) = Cardinality({k \in Keys : Get(v, k).ok})

\* C17 witness: three records were allocated and the first of them deleted,
\* and an Insert through v2 of a key that is present has just left the two
\* keys of the slice distinct.
C17_Witness ==
    /\ last.op = "Insert" /\ last.sm = "v2" /\ last.ix # 0
    /\ nextAddr = 4
    /\ LenOf("v1") = 2
    /\ Cardinality({k \in Keys : Get("v1", k).ok}) = 2
    /\ 1 \notin DOMAIN recs

\* The key->value map a store stands for: k is mapped to the value of the
\* pair Get(k) returns (the first with key k), and not mapped if Get(k)
\* returns false (no pair has key k).
Abs(heap, s) ==
    [k \in {x \in Keys : Find(heap, s, x) # 0} |-> heap[s[Find(heap, s, k)]].Value]

\* The reference map: put-if-absent, put-if-present, put and remove.
RefInsert(m, k, val) == IF k \in DOMAIN m THEN m ELSE (k :> val) @@ m
RefUpdate(m, k, val) == IF k \in DOMAIN m THEN (k :> val) @@ m ELSE m
RefUpsert(m, k, val) == (k :> val) @@ m
RefDelete(m, k) == [x \in DOMAIN m \ {k} |-> m[x]]

\* The reference map after the call the label tells of, from m before it.
RefCall(m, call) ==
    CASE call.op = "Insert" -> RefInsert(m, call.k, call.v)
      [] call.op = "Update" -> RefUpdate(m, call.k, call.v)
      [] call.op = "Upsert" -> RefUpsert(m, call.k, call.v)
      [] call.op = "Delete" -> RefDelete(m, call.k)
      [] call.op = "Sort" -> m

\* C18: refinement of a plain map.  The map Get reads from the store made
\* by NewStringMap(m) is m, and every call changes it as the same call
\* changes the reference map: Insert as put-if-absent, Update as
\* put-if-present, Upsert as put, Delete as remove, returning whether the key
\* was mapped, and Sort not at all; after every call Len() is the size of
\* that map, and every view reads the slice the call was made on.
C18_MapRefinement ==
    /\ \A w \in Views :
        /\ Abs(recs, SliceOf(w)) = last.v
        /\ LenOf(w) = Cardinality(DOMAIN last.v)
    /\ [][\A m \in {Abs(recs, SliceOf(last'.sm))} :
          \A expected \in {RefCall(m, last')} :
            /\ last'.op = "Delete" => last'.ret = (last'.k \in DOMAIN m)
            /\ Abs(recs', origs'[sm'[last'.sm]]) = expected
            /\ Len(origs'[sm'[last'.sm]]) = Cardinality(DOMAIN expected)
            /\ \A w \in Views : origs'[sm'[w]] = origs'[sm'[last'.sm]]]_vars

\* C18 witness: a Delete returned true and left the store standing for the
\* map with the single pair ("b", "2"), after three records were allocated.
C18_Witness ==
    /\ last.op = "Delete" /\ last.ret = TRUE
    /\ Abs(recs, SliceOf("v2")) = (<<98>> :> "2")
    /\ nextAddr = 4

\* C20: construction from a mapping.  Right after v1 := NewStringMap(m) and
\* v3 := NewStringMap(m), in any orders of iteration, every view has
\* Len() = |m| and Get(k) returns a pair of value m[k] for the keys of m and
\* false for the others; once Sort was the most recent call on both stores
\* and no pair was added, they are equal element by element; and when m is
\* empty, an Insert or Upsert on the empty store made from it is read by Get
\* through every view of that store, Len() being 1.
C20_NewStringMap ==
    LET m == last.from
        views == DOMAIN sm
    IN /\ last.op = "NewStringMap" =>
            \A w \in views :
                /\ LenOf(w) = Cardinality(DOMAIN m)
                /\ \A k \in Keys :
                    /\ k \in DOMAIN m =>
                        Get(w, k).ok /\ recs[Get(w, k).orig].Value = m[k]
                    /\ k \notin DOMAIN m => ~Get(w, k).ok
       /\ (/\ {sm["v1"], sm["v3"]} \subseteq last.sorted
           /\ nextAddr = 2 * Cardinality(DOMAIN m) + 1) =>
            Contents(recs, SliceOf("v1")) = Contents(recs, SliceOf("v3"))
       /\ (m = <<>> /\ last.op \in {"Insert", "Upsert"}) =>
            \A w \in views : sm[w] = sm[last.sm] =>
                /\ LenOf(w) = 1
                /\ Get(w, last.k).ok
                /\ recs[Get(w, last.k).orig].Value = last.v

\* C20 witness: two stores made from the same mapping of three keys were
\* both sorted, and neither was in ascending order as constructed.
C20_Witness ==
    /\ Cardinality(DOMAIN last.from) = 3
    /\ {sm["v1"], sm["v3"]} \subseteq last.sorted
    /\ SliceOf("v1") # <<1, 2, 3>>
    /\ SliceOf("v3") # <<4, 5, 6>>
    /\ Contents(recs, SliceOf("v2")) = Contents(recs, SliceOf("v3"))

====
